---- MODULE Spec2Model ----
(***************************************************************************)
(* Model of lms/djangoapps/courseware/module_render.py: the glue that      *)
(* loads a student's persisted StudentModule records, constructs the       *)
(* xmodule, dispatches AJAX / xqueue callbacks into it and saves the        *)
(* resulting state and grade.  Every request handler is one atomic action  *)
(* (section 5 of the specification: one synchronous call per request).     *)
(***************************************************************************)
EXTENDS Bags, FiniteSets, Integers, Sequences, TLC

VARIABLES
    store,      \* the courseware_studentmodule table: a bag of StudentModule rows
    last,       \* history of the most recent call: its arguments and what it did
    course,     \* get_section: the course_module argument (NoCourse for None)
    chapter,    \* get_section: the chapter name looked for
    section,    \* get_section: the section name looked for
    result      \* get_section: the value returned (NoSection for None)

vars == <<store, last, course, chapter, section, result>>

----------------------------------------------------------------------------
(* Bounds of the model *)

\* scores a module can report are the values 1..MaxScore
MaxScore == 1
\* rows the table may hold
MaxRecords == 2
\* chapters of a course
MaxChapters == 2
\* sections of a chapter
MaxSections == 2

----------------------------------------------------------------------------
(* Values *)

\* Python's None where the other values are integers (state, grade, score)
None == -1
\* Python's None where the other values are strings (shared_state_key, names)
NoKey == "None"
\* Python's None where the other values are StudentModule rows
NoRecord == [none |-> TRUE]

\* the values of a module's state blob (instance or shared): the default
\* state and one other
States == {0, 1}
Scores == 1..MaxScore

\* registered users (rows of auth_user) and django's AnonymousUser
Users == {"u1", "u2"}
AnonymousUser == "anon"
\* a userid that names no row of auth_user
NoSuchUser == "u9"
\* the userid of a grading callback: a registered user, or nobody.  The two
\* registered users are interchangeable, so one of them stands for the user
\* named; request.user is that user, the other one, or AnonymousUser.
Userids == {"u1", NoSuchUser}

\* locations held by the modulestore
Locations == {"m1", "m2"}

----------------------------------------------------------------------------
(* The modulestore: modulestore().get_item(location) *)

\* descriptor.category
Category(location) == IF location = "m1" THEN "problem" ELSE "video"

\* getattr(descriptor, 'shared_state_key', None)
shared_state_key(location) == IF location = "m1" THEN "k1" ELSE NoKey

----------------------------------------------------------------------------
(* models.StudentModule and models.StudentModuleCache *)

\* StudentModule(student=, module_type=, module_state_key=, state=, max_grade=):
\* a new row; grade is unset.  reported is a history field, not a column: the
\* last score the module reported into this row (None: never).
StudentModule(student, module_type, module_state_key, state, max_grade) ==
    [student |-> student, module_type |-> module_type,
     module_state_key |-> module_state_key, state |-> state,
     grade |-> None, max_grade |-> max_grade, reported |-> None]

\* row.save(): INSERT for an object that has no row yet (old = NoRecord),
\* UPDATE of its own row otherwise
save(db, old, new) ==
    IF old = NoRecord THEN db (+) SetToBag({new})
    ELSE (db (-) SetToBag({old})) (+) SetToBag({new})

\* StudentModuleCache(user, descriptor): the user's rows whose key is the
\* descriptor's location or its shared_state_key; nothing for AnonymousUser
StudentModuleCache(user, location, db) ==
    IF user \notin Users THEN {}
    ELSE {r \in BagToSet(db) :
            /\ r.student = user
            /\ r.module_state_key \in {location, shared_state_key(location)}}

\* student_module_cache.lookup(module_type, module_state_key): a row of the
\* cache with that type and key, or None.  The query has no ORDER BY, so with
\* several matching rows any of them may come first: the set of possible results.
lookup(cache, module_type, module_state_key) ==
    LET hits == {r \in cache : /\ r.module_type = module_type
                               /\ r.module_state_key = module_state_key}
    IN  IF hits = {} THEN {NoRecord} ELSE hits

\* user.is_authenticated()
is_authenticated(user) == user \in Users

----------------------------------------------------------------------------
(* The xmodule: the transient runtime object of one module instance *)

\* descriptor.xmodule_constructor(system)(instance_state, shared_state): a
\* module with no stored state starts in its default state, 0
xmodule_constructor(location, instance_state, shared_state) ==
    [location |-> location,
     instance_state |-> IF instance_state = None THEN 0 ELSE instance_state,
     shared_state |-> IF shared_state_key(location) = NoKey THEN None
                      ELSE IF shared_state = None THEN 0 ELSE shared_state,
     score |-> None]

get_instance_state(module) == module.instance_state
get_shared_state(module) == module.shared_state
\* None (falsy) when the module reports no score, else {'score': s, ...}
get_score(module) == module.score
max_score(module) == MaxScore

\* instance.handle_ajax(dispatch, get): opaque to this code.  It raises, having
\* changed the module's instance state or not, or it returns leaving the
\* module in any state and with any (or no) score.
handle_ajax(module) ==
    {[raised |-> TRUE, module |-> [module EXCEPT !.instance_state = s]] :
        s \in States} \cup
    {[raised |-> FALSE,
      module |-> [module EXCEPT !.instance_state = s, !.shared_state = t,
                                !.score = g]] :
        s \in States,
        t \in (IF module.shared_state = None THEN {None} ELSE States),
        g \in {None} \cup Scores}

----------------------------------------------------------------------------
(* get_module *)

\* the guard without the login check: a row is inserted for a guest too
creates_instance_for_guest(user, instance_module) == instance_module = NoRecord

\* lines 250-251: a StudentModule is created for a user who is logged in and
\* for whom the lookup found none
creates_instance(user, instance_module) ==
    is_authenticated(user) /\ instance_module = NoRecord

\* lines 250, 262
creates_shared(user, shared_module, key) ==
    is_authenticated(user) /\ shared_module = NoRecord /\ key # NoKey

\* get_module once the two cache lookups have returned found_instance and found_shared
get_module_found(user, location, student_module_cache, db, found_instance, found_shared) ==
    LET key == shared_state_key(location)
        instance_state == IF found_instance # NoRecord THEN found_instance.state ELSE None
        shared_state == IF found_shared # NoRecord THEN found_shared.state ELSE None
        module == xmodule_constructor(location, instance_state, shared_state)
        new_instance == StudentModule(user, Category(location), module.location,
                                      get_instance_state(module), max_score(module))
        new_shared == StudentModule(user, Category(location), key,
                                    get_shared_state(module), None)
        mkI == creates_instance(user, found_instance)
        mkS == creates_shared(user, found_shared, key)
        db1 == IF mkI THEN save(db, NoRecord, new_instance) ELSE db
        db2 == IF mkS THEN save(db1, NoRecord, new_shared) ELSE db1
    IN  [module |-> module,
         instance_module |-> IF mkI THEN new_instance ELSE found_instance,
         shared_module |-> IF mkS THEN new_shared ELSE found_shared,
         found_instance |-> found_instance,
         created |-> (IF mkI THEN {new_instance} ELSE {}) \cup
                     (IF mkS THEN {new_shared} ELSE {}),
         cache |-> student_module_cache \cup
                   (IF mkI THEN {new_instance} ELSE {}) \cup
                   (IF mkS THEN {new_shared} ELSE {}),
         store |-> db2]

\* get_module(user, request, location, student_module_cache): every result the
\* call can have (one, unless the cache holds several rows for a key)
get_module(user, location, student_module_cache, db) ==
    {get_module_found(user, location, student_module_cache, db, fi, fs) :
        fi \in lookup(student_module_cache, Category(location), location),
        fs \in (IF shared_state_key(location) # NoKey
                THEN lookup(student_module_cache, Category(location),
                            shared_state_key(location))
                ELSE {NoRecord})}

----------------------------------------------------------------------------
(* request.POST: a QueryDict, each key holding the list of its values *)

PostKeys == {"xqueue_header", "queuekey", "xqueue_body"}

\* texts a client may post as xqueue_header
HeaderTexts == {"not json", "{}", "{queuekey: qk1}"}

\* json.loads(text): ok is FALSE where it raises ValueError
json_loads(text) ==
    CASE text = "{}" -> [ok |-> TRUE, value |-> <<>>]
      [] text = "{queuekey: qk1}" -> [ok |-> TRUE, value |-> [queuekey |-> "qk1"]]
      [] OTHER -> [ok |-> FALSE, value |-> <<>>]

\* the POST data of an xqueue callback
XqueuePosts ==
    {[xqueue_header |-> h, queuekey |-> <<"qk0">>, xqueue_body |-> <<"ok">>] :
        h \in {<<>>} \cup {<<t>> : t \in HeaderTexts}}

\* the POST data of an AJAX call
AjaxPosts == {[xqueue_header |-> <<>>, queuekey |-> <<>>, xqueue_body |-> <<>>]}

\* QueryDict.pop(key): the key's list is removed (KeyError when it has none)
pop(get, key) == [get EXCEPT ![key] = <<>>]

\* an update that leaves a key the client posted as it is
update_if_absent(get, key, value) ==
    IF get[key] = <<>> THEN [get EXCEPT ![key] = <<value>>] ELSE get

\* QueryDict.update({key: value}): appends value to the key's list
update(get, key, value) == [get EXCEPT ![key] = Append(@, value)]

\* QueryDict[key]: the last value of the key's list
getitem(get, key) == get[key][Len(get[key])]

\* dispatch.partition('?')[0]: the part before the first '?'
RECURSIVE partition(_)
partition(dispatch) ==
    IF dispatch = <<>> \/ Head(dispatch) = "?" THEN <<>>
    ELSE <<Head(dispatch)>> \o partition(Tail(dispatch))

Dispatches == {<<"problem_check", "?", "x">>}

----------------------------------------------------------------------------
(* The history of the most recent call *)

NoCall ==
    [op |-> "none", user |-> AnonymousUser, userid |-> NoSuchUser,
     location |-> "m1", outcome |-> "none",
     post |-> <<>>,                \* request.POST
     dispatch |-> <<>>,            \* the dispatch handed to handle_ajax
     lookup_user |-> AnonymousUser,\* whose rows the cache was built from
     created |-> {},               \* rows get_module inserted
     cached |-> TRUE,              \* the rows inserted were appended to the cache
     handled |-> FALSE,            \* handle_ajax was called
     args |-> <<>>,                \* the data handle_ajax was called with
     module |-> [none |-> TRUE],   \* the xmodule as the call left it
     instance_module |-> NoRecord, \* the objects in memory as the call left them
     shared_module |-> NoRecord,
     \* whether the value after handle_ajax differs from the one read before it
     grade_differs |-> FALSE, state_differs |-> FALSE, shared_differs |-> FALSE,
     saved_instance |-> FALSE,     \* instance_module.save() ran after handle_ajax
     saved_shared |-> FALSE]       \* shared_module.save() ran after handle_ajax

\* history only: the score the module reported is noted in the row
report(row, score) == IF score # None THEN [row EXCEPT !.reported = score] ELSE row

\* the fields of the history that get_module's result g fills
after_get_module(call, g) ==
    [call EXCEPT !.created = g.created, !.cached = g.created \subseteq g.cache,
                 !.instance_module = g.instance_module,
                 !.shared_module = g.shared_module, !.module = g.module]

----------------------------------------------------------------------------
(* The request handlers *)

\* lines 398 and 349: get_module returned no instance_module
instance_missing(instance_module) == instance_module = NoRecord

\* lines 416-417 and 371-372: the grade after handling
new_grade(grade, score) == IF score # None THEN score ELSE grade

\* the test left out: the row is saved whether or not anything changed
instance_changed_always(grade, oldgrade, state, old_instance_state) == TRUE

\* the test without the grade: a new grade alone is not saved
instance_changed_state_only(grade, oldgrade, state, old_instance_state) ==
    state # old_instance_state

\* lines 418 and 373
instance_changed(grade, oldgrade, state, old_instance_state) ==
    grade # oldgrade \/ state # old_instance_state

\* line 423
shared_changed(state, old_shared_state) == state # old_shared_state

\* lines 415-419 and 370-374: the instance row after handle_ajax returned.
\* Gives the object in memory, the table and whether save() ran.  Without a
\* save the row keeps its columns; only its history field is noted.
save_instance(db, instance_module, module, oldgrade, old_instance_state) ==
    LET noted == report(instance_module, get_score(module))
        im == [noted EXCEPT !.state = get_instance_state(module),
                            !.grade = new_grade(@, get_score(module))]
        dirty == instance_changed(im.grade, oldgrade, im.state, old_instance_state)
    IN  [instance_module |-> im, saved |-> dirty,
         store |-> IF dirty THEN save(db, instance_module, im)
                   ELSE save(db, instance_module, noted)]

\* lines 421-424: the shared row after handle_ajax returned
save_shared(db, shared_module, module, old_shared_state) ==
    IF shared_module = NoRecord
    THEN [shared_module |-> NoRecord, saved |-> FALSE, store |-> db]
    ELSE LET sm == [shared_module EXCEPT !.state = get_shared_state(module)]
             dirty == shared_changed(sm.state, old_shared_state)
         IN  [shared_module |-> sm, saved |-> dirty,
              store |-> IF dirty THEN save(db, shared_module, sm) ELSE db]

\* the state saved on the way out of a failed handle_ajax
after_raise_saving(db, instance_module, shared_module, module) ==
    save(db, instance_module,
         [instance_module EXCEPT !.state = get_instance_state(module)])

\* lines 410-412 and 365-367: handle_ajax raised; the exception is logged and
\* raised again, and nothing is saved
after_raise(db, instance_module, shared_module, module) == db

\* toc_for_course, lines 130-131: get_module with a cache built for the same user
toc_for_course(user, location) ==
    \E g \in get_module(user, location, StudentModuleCache(user, location, store), store) :
        /\ BagCardinality(g.store) <= MaxRecords
        /\ store' = g.store
        /\ last' = after_get_module(
                     [NoCall EXCEPT !.op = "get_module", !.user = user,
                                    !.lookup_user = user, !.location = location,
                                    !.outcome = "returned"], g)
        /\ UNCHANGED <<course, chapter, section, result>>

\* modx_dispatch(request, dispatch, id) with request.user = user, request.POST = post
modx_dispatch(user, dispatch, id, post) ==
    LET call == [NoCall EXCEPT !.op = "modx_dispatch", !.user = user,
                               !.lookup_user = user, !.location = id,
                               !.post = post, !.dispatch = partition(dispatch)]
    IN
    \E g \in get_module(user, id, StudentModuleCache(user, id, store), store) :
      /\ BagCardinality(g.store) <= MaxRecords
      /\ UNCHANGED <<course, chapter, section, result>>
      /\ IF instance_missing(g.instance_module)
         THEN /\ store' = g.store
              /\ last' = [after_get_module(call, g) EXCEPT !.outcome = "Http404"]
         ELSE
           LET oldgrade == g.instance_module.grade
               old_instance_state == g.instance_module.state
               old_shared_state == IF g.shared_module # NoRecord
                                   THEN g.shared_module.state ELSE None
               entered == [after_get_module(call, g) EXCEPT
                             !.handled = TRUE, !.args = post]
           IN
           \E h \in handle_ajax(g.module) :
             IF h.raised
             THEN /\ store' = after_raise(g.store, g.instance_module,
                                          g.shared_module, h.module)
                  /\ last' = [entered EXCEPT !.outcome = "raised"]
             ELSE
               LET i == save_instance(g.store, g.instance_module, h.module,
                                      oldgrade, old_instance_state)
                   s == save_shared(i.store, g.shared_module, h.module,
                                    old_shared_state)
               IN /\ store' = s.store
                  /\ last' = [entered EXCEPT
                                !.outcome = "HttpResponse", !.module = h.module,
                                !.instance_module = i.instance_module,
                                !.shared_module = s.shared_module,
                                !.grade_differs = (i.instance_module.grade # oldgrade),
                                !.state_differs =
                                    (i.instance_module.state # old_instance_state),
                                !.shared_differs =
                                    (s.shared_module # NoRecord /\
                                     s.shared_module.state # old_shared_state),
                                !.saved_instance = i.saved,
                                !.saved_shared = s.saved]

\* xqueue_callback(request, userid, id, dispatch) with request.user = user,
\* request.POST = post
xqueue_callback(user, userid, id, dispatch, post) ==
    LET \* the history holds of the arguments what the call got to read
        parsing == [NoCall EXCEPT !.op = "xqueue_callback", !.post = post]
        getting == [parsing EXCEPT !.userid = userid]
        call == [getting EXCEPT !.user = user, !.lookup_user = userid,
                                !.location = id, !.dispatch = dispatch]
        \* lines 336-341: get.pop('xqueue_header')[0], json.loads
        popped == post["xqueue_header"]
        get == pop(post, "xqueue_header")
        parsed == IF popped = <<>> THEN [ok |-> FALSE, value |-> <<>>]
                  ELSE json_loads(popped[1])
        header == parsed.value
    IN
    /\ UNCHANGED <<course, chapter, section, result>>
    /\ IF ~parsed.ok
       THEN /\ store' = store
            /\ last' = [parsing EXCEPT !.outcome = "Invalid return format"]
       ELSE IF userid \notin Users
       THEN \* line 344: User.objects.get raises User.DoesNotExist
            /\ store' = store
            /\ last' = [getting EXCEPT !.outcome = "DoesNotExist"]
       ELSE
       \E g \in get_module(user, id, StudentModuleCache(userid, id, store), store) :
         /\ BagCardinality(g.store) <= MaxRecords
         /\ IF instance_missing(g.instance_module)
            THEN /\ store' = g.store
                 /\ last' = [after_get_module(call, g) EXCEPT !.outcome = "Http404"]
            ELSE
              LET oldgrade == g.instance_module.grade
                  old_instance_state == g.instance_module.state
              IN
              IF "queuekey" \notin DOMAIN header
              THEN \* line 359: header['queuekey'] raises KeyError
                   /\ store' = g.store
                   /\ last' = [after_get_module(call, g) EXCEPT !.outcome = "KeyError"]
              ELSE
                LET entered == [after_get_module(call, g) EXCEPT
                                  !.handled = TRUE,
                                  !.args = update(get, "queuekey", header.queuekey)]
                IN
                \E h \in handle_ajax(g.module) :
                  IF h.raised
                  THEN /\ store' = after_raise(g.store, g.instance_module,
                                               g.shared_module, h.module)
                       /\ last' = [entered EXCEPT !.outcome = "raised"]
                  ELSE
                    LET i == save_instance(g.store, g.instance_module, h.module,
                                           oldgrade, old_instance_state)
                    IN /\ store' = i.store
                       /\ last' = [entered EXCEPT
                                     !.outcome = "HttpResponse",
                                     !.module = h.module,
                                     !.instance_module = i.instance_module,
                                     !.grade_differs =
                                         (i.instance_module.grade # oldgrade),
                                     !.state_differs =
                                         (i.instance_module.state # old_instance_state),
                                     !.saved_instance = i.saved]

----------------------------------------------------------------------------
(* get_section *)

\* None where the other values are course, chapter or section modules
NoModule == [none |-> TRUE]

\* display names of chapters and sections
Names == {"a", "b"}

SectionNames == UNION {[1..n -> Names] : n \in 0..MaxSections}
ChapterShapes == [display_name : Names, sections : SectionNames]
CourseShapes == UNION {[1..n -> ChapterShapes] : n \in 0..MaxChapters}

\* the course module of a shape; every section has its own location
CourseModule(shape) ==
    [display_name |-> "course",
     children |->
        [i \in 1..Len(shape) |->
            [display_name |-> shape[i].display_name,
             children |->
                [j \in 1..Len(shape[i].sections) |->
                    [display_name |-> shape[i].sections[j],
                     location |-> <<i, j>>]]]]]

Courses == {NoModule} \cup {CourseModule(shape) : shape \in CourseShapes}

\* the loop without its break: the last child whose display_name is name
RECURSIVE last_named(_, _)
last_named(children, name) ==
    IF children = <<>> THEN NoModule
    ELSE LET later == last_named(Tail(children), name)
         IN  IF later # NoModule THEN later
             ELSE IF Head(children).display_name = name THEN Head(children)
             ELSE NoModule

\* lines 165-169 and 174-178: the first child whose display_name is name
RECURSIVE first_named(_, _)
first_named(children, name) ==
    IF children = <<>> THEN NoModule
    ELSE IF Head(children).display_name = name THEN Head(children)
    ELSE first_named(Tail(children), name)

get_section(course_module, chapter_name, section_name) ==
    IF course_module = NoModule THEN NoModule
    ELSE LET chapter_module == first_named(course_module.children, chapter_name)
         IN  IF chapter_module = NoModule THEN NoModule
             ELSE first_named(chapter_module.children, section_name)

\* no call of get_section has returned yet
Pending == [pending |-> TRUE]

\* the call get_section(course, chapter, section) returns
call_get_section ==
    /\ result = Pending
    /\ result' = get_section(course, chapter, section)
    /\ UNCHANGED <<store, last, course, chapter, section>>

----------------------------------------------------------------------------
(* Specifications *)

Init ==
    /\ store = EmptyBag
    /\ last = NoCall
    /\ course = NoModule
    /\ chapter = NoKey
    /\ section = NoKey
    /\ result = Pending

RequestUsers == Users \cup {AnonymousUser}

Next ==
    \/ \E user \in RequestUsers, location \in Locations :
          toc_for_course(user, location)
    \/ \E user \in RequestUsers, dispatch \in Dispatches, id \in Locations,
          post \in AjaxPosts :
          modx_dispatch(user, dispatch, id, post)
    \/ \E user \in RequestUsers, userid \in Userids,
          id \in Locations, post \in XqueuePosts :
          xqueue_callback(user, userid, id, <<"score_update">>, post)

Spec == Init /\ [][Next]_vars

\* get_section under every course and pair of names of the bounds
InitSection ==
    /\ store = EmptyBag
    /\ last = NoCall
    /\ course \in Courses
    /\ chapter \in Names \cup {NoKey}
    /\ section \in Names \cup {NoKey}
    /\ result = Pending

NextSection == call_get_section

SpecSection == InitSection /\ [][NextSection]_vars

----------------------------------------------------------------------------
(* Properties *)

Handlers == {"modx_dispatch", "xqueue_callback"}

\* the call got as far as get_module
called_get_module(call) ==
    call.outcome \notin {"none", "Invalid return format", "DoesNotExist"}

\* the rows of the table with a student and a key
rows_of(db, student, key) ==
    {r \in BagToSet(db) : r.student = student /\ r.module_state_key = key}

\* C1: after any sequence of calls the table holds at most one row per
\* (student, module) and per (student, shared key): no two rows, equal or not,
\* have the same student and module_state_key.
C1_OneRecordPerStudentAndKey ==
    \A r \in BagToSet(store) :
        /\ CopiesIn(r, store) = 1
        /\ rows_of(store, r.student, r.module_state_key) = {r}

\* C2: in modx_dispatch and xqueue_callback a row is saved after handle_ajax
\* only when it changed: the instance row only if its grade or its state differs
\* from the value read before handle_ajax, the shared row only if its state
\* differs; when nothing changed there is no save.
C2_SavedOnlyWhenChanged ==
    last.op \in Handlers =>
        /\ last.saved_instance => (last.grade_differs \/ last.state_differs)
        /\ last.saved_shared => last.shared_differs

\* a handler saved both rows
C2_Witness ==
    /\ last.op = "modx_dispatch"
    /\ last.saved_instance
    /\ last.saved_shared

\* C3: get_module creates the instance row lazily.  Called for a logged-in
\* user who has no row for the module, it inserts exactly one row for (user,
\* module), holding the instance state of the freshly constructed module, and
\* adds it to the cache; when the user has a row it inserts none; for a guest
\* it inserts nothing, and an instance_module that the lookup left None stays None.
C3_LazyCreation ==
    [][called_get_module(last') =>
        LET c == last'
            loc == c.location
            has_row == rows_of(store, c.user, loc) # {}
            found == lookup(StudentModuleCache(c.lookup_user, loc, store),
                            Category(loc), loc) # {NoRecord}
            mine == {r \in c.created : r.module_state_key = loc}
            fresh == xmodule_constructor(loc, None, None)
        IN  /\ c.op = "get_module" => store' = store (+) SetToBag(c.created)
            /\ (is_authenticated(c.user) /\ ~has_row) =>
                  /\ c.cached
                  /\ \E r \in mine :
                        /\ mine = {r}
                        /\ r.student = c.user
                        /\ r.module_type = Category(loc)
                        /\ r.state = get_instance_state(fresh)
                        /\ r.grade = None
            /\ has_row => mine = {}
            /\ ~is_authenticated(c.user) =>
                  /\ c.created = {}
                  /\ ~found => (c.instance_module = NoRecord /\ store' = store)
    ]_vars

\* C4: after a modx_dispatch or xqueue_callback that returns its response, the
\* stored instance row of the student holds the module's instance state at the
\* end of handling (and the reported score as its grade), so that the next
\* get_module for that student and module constructs the module in that state.
\* The student is request.user in modx_dispatch and the user named by userid
\* in xqueue_callback.
C4_ChangesPersisted ==
    last.outcome = "HttpResponse" =>
        LET student == IF last.op = "xqueue_callback" THEN last.userid ELSE last.user
            loc == last.location
        IN  /\ last.instance_module \in BagToSet(store)
            /\ last.instance_module.state = get_instance_state(last.module)
            /\ get_score(last.module) # None =>
                  last.instance_module.grade = get_score(last.module)
            /\ \A g \in get_module(student, loc,
                                   StudentModuleCache(student, loc, store), store) :
                  get_instance_state(g.module) = get_instance_state(last.module)

\* C5: a handler whose get_module yields no instance row (a guest for whom the
\* lookup finds none) raises Http404: handle_ajax is not called and no row is
\* inserted or saved.
C5_MissingRecordIs404 ==
    [][(/\ last'.op \in Handlers
        /\ called_get_module(last')
        /\ ~is_authenticated(last'.user)
        /\ lookup(StudentModuleCache(last'.lookup_user, last'.location, store),
                  Category(last'.location), last'.location) = {NoRecord})
       => (/\ last'.outcome = "Http404"
           /\ ~last'.handled
           /\ last'.created = {}
           /\ store' = store)
    ]_vars

\* the grading callback of a guest found no row
C5_Witness ==
    /\ last.op = "xqueue_callback"
    /\ last.outcome = "Http404"
    /\ last.user = AnonymousUser

\* C6: when handle_ajax raises, the handler raises too and saves nothing
\* afterwards: the table is what it was when handle_ajax was called, that is
\* the table at the start of the call and the rows get_module inserted.
C6_NothingSavedAfterRaise ==
    [][last'.outcome = "raised" =>
        /\ last'.op \in Handlers
        /\ last'.handled
        /\ ~last'.saved_instance /\ ~last'.saved_shared
        /\ store' = store (+) SetToBag(last'.created)
    ]_vars

\* handle_ajax raised in a handler that had a row to work on
C6_Witness ==
    /\ last.outcome = "raised"
    /\ last.instance_module \in BagToSet(store)
    /\ last.op = "xqueue_callback"

\* the least element of a non-empty set of positions
Least(S) == CHOOSE i \in S : \A j \in S : i <= j

\* C7: get_section returns the first child named `section` of the first child
\* of the course named `chapter`, and None when the course is None, when no
\* chapter has the name, or when the first chapter of that name has no section
\* of the name (whatever later chapters of the name hold).
C7_GetSection ==
    result # Pending =>
    IF course = NoModule THEN result = NoModule
    ELSE LET chapters == course.children
             I == {i \in DOMAIN chapters : chapters[i].display_name = chapter}
         IN  IF I = {} THEN result = NoModule
             ELSE LET sections == chapters[Least(I)].children
                      J == {j \in DOMAIN sections :
                                sections[j].display_name = section}
                  IN  IF J = {} THEN result = NoModule
                      ELSE /\ result = sections[Least(J)]
                           /\ result.location = <<Least(I), Least(J)>>

\* a section was found in a chapter that is not the only one of its name, and
\* it is not the only section of its name
C7_Witness ==
    /\ result \notin {Pending, NoModule}
    /\ Cardinality({i \in DOMAIN course.children :
                       course.children[i].display_name = chapter}) > 1
    /\ result.location[2] = 1
    /\ \E j \in DOMAIN course.children[result.location[1]].children :
          /\ j > 1
          /\ course.children[result.location[1]].children[j].display_name = section

\* C8: every row xqueue_callback reads, inserts or saves belongs to the user
\* named by userid, never to request.user when the two differ.
C8_CallbackActsOnNamedUser ==
    last.op = "xqueue_callback" =>
        \A r \in last.created \cup
                 ({last.instance_module, last.shared_module} \ {NoRecord}) :
            r.student = last.userid

\* C9: an xqueue_callback whose POST data has no xqueue_header, or one that is
\* not JSON, fails with 'Invalid return format' before anything is looked up:
\* no module is constructed, handle_ajax is not called, no row is inserted or
\* saved.  When handle_ajax is called it gets the posted fields without
\* xqueue_header and with queuekey reading the header's queuekey.
C9_CallbackHeader ==
    [][last'.op = "xqueue_callback" =>
        LET c == last'
            h == c.post["xqueue_header"]
            bad == h = <<>> \/ h[1] = "not json"
        IN  /\ bad => /\ c.outcome = "Invalid return format"
                      /\ ~c.handled
                      /\ c.module = [none |-> TRUE]
                      /\ c.created = {}
                      /\ store' = store
            /\ c.outcome = "Invalid return format" => bad
            /\ c.handled =>
                  /\ h = <<"{queuekey: qk1}">>
                  /\ c.args["xqueue_header"] = <<>>
                  /\ getitem(c.args, "queuekey") = "qk1"
                  /\ \A k \in PostKeys \ {"xqueue_header", "queuekey"} :
                        c.args[k] = c.post[k]
    ]_vars

\* handle_ajax was called by the callback, for a POST that held a queuekey of
\* its own
C9_Witness ==
    /\ last.op = "xqueue_callback"
    /\ last.handled
    /\ last.post["queuekey"] # <<>>

====
